---- MODULE Spec2Model ----
(***************************************************************************)
(* State-machine model of the laser-projection analysis application:      *)
(* frame extraction (scripts/frame_extraction.py), the extraction thread  *)
(* and video loader (gui/video_loader.py), the frame store and its batch  *)
(* workers (gui/frame_viewer.py) and the main-window handlers that drive  *)
(* them (gui/main_window.py).                                             *)
(***************************************************************************)
EXTENDS Integers, Sequences, FiniteSets, TLC

(* ---------------- bounds of the model ---------------- *)
\* longest video, in decodable frames
MaxT == 6
\* largest frame_interval given to extract_frames when it is called directly
MaxInterval == 3
\* number of commands the user gives (presses of "Load Video", "Process Frames"
\* and "Process OCR") in the application
MaxCommands == 3
\* number of commands (presses of "Load Video" and "Process Frames") where the
\* navigation calls of the frame store are made as well
MaxViewerCommands == 2
\* longest video offered there
MaxViewerT == 11
\* number of commands where batches are run again with another mode
MaxRerunCommands == 4
\* number of commands where batches are cancelled ("Cancel" on a progress dialog
\* is a command as well) and given a mode that is no entry of the dropdown
MaxBatchCommands == 3
\* longest video offered in both
MaxBatchT == 1
\* the words of one OCR table
MaxWords == 3
\* images handed to process_image: frames of videos this long at most
MaxFilterT == 2
\* images of one call of process_ocr_batch
MaxOcrBatch == 2
\* commands given to the window, and the longest video offered, where the
\* slider and the two buttons are used
MaxNavCommands == 2
MaxNavT == 6
\* frames given to a FrameProcessingThread
MaxThreadT == 3
\* frames given to a batch worker that is run on its own
MaxWorkerT == 3

(* ---------------- program constants ---------------- *)
\* FrameExtractionThread.__init__(..., frame_interval=5)
FrameInterval == 5
\* f"frame_{saved_frames:04d}.jpg"
NameWidth == 4
\* gui/main_window.py, line 108: the maximum of a QSlider as Qt constructs it
SliderDefaultMax == 99
\* gui/ocr_processor.py, line 102: the confidence the engine gives where it knows none
UnknownConf == -1
\* the confidences the engine gives to the words of a table
ConfValues == {UnknownConf, 60, 80}

(* ---------------- values ---------------- *)
None == [kind |-> "None"]

\* the extensions list_images_in_directory accepts
ImageExts == {"png", "jpg", "jpeg", "bmp", "tiff"}

\* decimal digits of a natural number, most significant first
RECURSIVE Digits(_)
Digits(n) == IF n < 10 THEN <<n>> ELSE Digits(n \div 10) \o <<n % 10>>

\* left-pad a digit string with zeros up to width w (never truncates)
RECURSIVE ZeroPad(_, _)
ZeroPad(s, w) == IF Len(s) >= w THEN s ELSE ZeroPad(<<0>> \o s, w)

\* os.path.join(output_folder, f"frame_{k:04d}.jpg")
FrameFilename(k) ==
    [kind |-> "path", folder |-> "data/frames", stem |-> ZeroPad(Digits(k), NameWidth), ext |-> "jpg"]

\* a file that is in the frame folder but is no image
ForeignFile == [kind |-> "path", folder |-> "data/frames", stem |-> <<>>, ext |-> "txt"]

\* lexicographic order on digit strings (Python's string comparison)
RECURSIVE LexLess(_, _)
LexLess(a, b) ==
    IF a = <<>> THEN b # <<>>
    ELSE IF b = <<>> THEN FALSE
    ELSE IF Head(a) # Head(b) THEN Head(a) < Head(b)
    ELSE LexLess(Tail(a), Tail(b))

PathLess(p, q) == LexLess(p.stem, q.stem)

\* a set of paths as the sequence sorted by PathLess
RECURSIVE SortedPaths(_)
SortedPaths(S) ==
    IF S = {} THEN <<>>
    ELSE LET m == CHOOSE p \in S : \A q \in S \ {p} : PathLess(p, q)
         IN <<m>> \o SortedPaths(S \ {m})

\* utils.common.list_images_in_directory
list_images_in_directory(files) ==
    SortedPaths({p \in DOMAIN files : p.ext \in ImageExts})

\* frame_path.replace("frames", "processed_frames")
ProcessedPath(p) ==
    [p EXCEPT !.folder = IF @ = "data/frames" THEN "data/processed_frames" ELSE @]

(* ---------------- the videos a user can pick ---------------- *)
\* status: "ok" (decodable, T frames), "corrupt" (exists, cannot be opened),
\* "missing" (no such file); count is what the container reports as
\* CAP_PROP_FRAME_COUNT: the number of frames, or 0 where it does not know
Video(status, T, count) == [status |-> status, T |-> T, count |-> count]
NoVideo == [status |-> "none", T |-> 0, count |-> 0]

AllVideos ==
    {Video("ok", t, t) : t \in 0..MaxT} \cup {Video("ok", t, 0) : t \in 0..MaxT}
        \cup {Video("corrupt", 0, 0), Video("missing", 0, 0)}

\* what the file dialog of the main window offers: a long video, a short one,
\* one whose container reports no frame count, a file that is no video and a
\* file that is gone when the thread looks for it
Library(longest) ==
    {Video("ok", longest, longest), Video("ok", 1, 1), Video("ok", 2, 0),
     Video("corrupt", 0, 0), Video("missing", 0, 0)}

\* a decoded frame: which video, which read index
Frame(v, i) == [src |-> v.T, idx |-> i]

VARIABLES
    folderExists,      \* the output folder data/frames exists
    folderFiles,       \* its files: path -> content
    exPc,              \* extract_frames: "idle", "start", "loop", "join", "returned",
                       \* "unwind" (an exception is leaving the with block), "raised"
    video_path,        \* extract_frames argument
    frame_interval,    \* extract_frames argument
    progress_callback, \* extract_frames argument: TRUE when a callback is given
    cap,               \* cv2.VideoCapture: "none", "open", "failed", "released"
    frame_count,
    saved_frames,
    total_frames,
    executor,          \* ThreadPoolExecutor: tasks submitted and not yet run
    submitted,         \* every task this call has submitted, in order
    fsAtCall,          \* the folder as it was when extract_frames was called
    frames,                \* FrameViewer.frames
    processed_frames,      \* FrameViewer.processed_frames
    ocr_texts,             \* FrameViewer.ocr_texts
    current_frame_index,   \* FrameViewer.current_frame_index (0-based, as in the source)
    processFramesButton,   \* MainWindow.processFramesButton.isEnabled()
    processOCRButton,      \* MainWindow.processOCRButton.isEnabled()
    finishedSignals,       \* FrameExtractionThread.finished emissions queued for the main thread
    workers,               \* batch workers started on the global thread pool
    processedFiles,        \* the files of data/processed_frames: path -> content
    commands,              \* commands given so far
    budget,                \* commands the user gives at most
    library,               \* the videos the user picks from
    modes,                 \* the processing modes the batches are started with
    status_progress,       \* the values the update_progress callbacks of MainWindow.processFrames
                           \* and MainWindow.processOCR have been called with
    frameSlider,           \* MainWindow.frameSlider: minimum, maximum and value of the
                           \* QSlider; enabled is what lines 160-162 give the slider and
                           \* the Previous Frame and Next Frame buttons
    crashed,               \* the process was aborted
    last,                  \* the call the control thread made in the latest step, and what
                           \* it returned; NoCall after a step of a background thread
    seekTrail              \* progress of a run set_frame(i); prev_frame(); next_frame() of
                           \* consecutive steps

fsVars == <<folderExists, folderFiles>>
exVars == <<exPc, video_path, frame_interval, progress_callback, cap, frame_count, saved_frames, total_frames, executor, submitted, fsAtCall>>
storeVars == <<frames, processed_frames, ocr_texts, current_frame_index>>
guiVars == <<processFramesButton, processOCRButton, finishedSignals, commands, budget, library, modes, status_progress, frameSlider, crashed>>
navVars == <<last, seekTrail>>
appVars == <<storeVars, guiVars, workers, processedFiles, navVars>>
vars == <<fsVars, exVars, appVars>>

\* a step of a background thread: no call of the control thread has just returned
Call(op, arg, ret) == [op |-> op, arg |-> arg, ret |-> ret]
NoCall == Call("none", 0, None)
NoTrail == [stage |-> 0, index |-> 0]
Quiet == last' = NoCall /\ seekTrail' = NoTrail

(* ---------------- scripts/frame_extraction.py ---------------- *)
Snapshot == [exists |-> folderExists, files |-> folderFiles]

\* a call of extract_frames(video, "data/frames", interval, progress_callback)
CallExtract(v, interval, callback) ==
    /\ exPc' = "start"
    /\ video_path' = v
    /\ frame_interval' = interval
    /\ progress_callback' = callback
    /\ cap' = "none"
    /\ frame_count' = 0
    /\ saved_frames' = 0
    /\ total_frames' = 0
    /\ executor' = {}
    /\ submitted' = <<>>

\* lines 25-27: the video file does not exist
ExMissing ==
    /\ exPc = "start"
    /\ video_path.status = "missing"
    /\ exPc' = "returned"
    /\ UNCHANGED <<fsVars, video_path, frame_interval, progress_callback, cap, frame_count, saved_frames, total_frames, executor, submitted, fsAtCall, storeVars, guiVars, workers, processedFiles>>
    /\ Quiet

\* lines 30-35: the folder is made, then the video cannot be opened
ExOpenFail ==
    /\ exPc = "start"
    /\ video_path.status = "corrupt"
    /\ folderExists' = TRUE
    /\ cap' = "failed"
    /\ exPc' = "returned"
    /\ UNCHANGED <<folderFiles, video_path, frame_interval, progress_callback, frame_count, saved_frames, total_frames, executor, submitted, fsAtCall, storeVars, guiVars, workers, processedFiles>>
    /\ Quiet

\* lines 30-39: the folder is made, the video opened, its frame count asked for
ExOpenOk ==
    /\ exPc = "start"
    /\ video_path.status = "ok"
    /\ folderExists' = TRUE
    /\ cap' = "open"
    /\ total_frames' = video_path.count
    /\ exPc' = "loop"
    /\ UNCHANGED <<folderFiles, video_path, frame_interval, progress_callback, frame_count, saved_frames, executor, submitted, fsAtCall, storeVars, guiVars, workers, processedFiles>>
    /\ Quiet

\* line 49
IsKept(count, interval) == count % interval = 0

\* lines 57-58: int((frame_count / total_frames) * 100) divides by the count the
\* container reported
ProgressRaises(callback, total) == callback /\ total = 0

\* lines 44-58: one iteration of the read loop
ExRead ==
    /\ exPc = "loop"
    /\ IF frame_count < video_path.T
       THEN /\ IF IsKept(frame_count, frame_interval)
               THEN LET task == [filename |-> FrameFilename(saved_frames),
                                 frame |-> Frame(video_path, frame_count)]
                    IN /\ executor' = executor \cup {task}
                       /\ submitted' = Append(submitted, task)
                       /\ saved_frames' = saved_frames + 1
               ELSE UNCHANGED <<executor, submitted, saved_frames>>
            /\ frame_count' = frame_count + 1
            /\ exPc' = IF ProgressRaises(progress_callback, total_frames) THEN "unwind" ELSE "loop"
       ELSE /\ exPc' = "join"
            /\ UNCHANGED <<executor, submitted, saved_frames, frame_count>>
    /\ UNCHANGED <<fsVars, video_path, frame_interval, progress_callback, cap, total_frames, fsAtCall, storeVars, guiVars, workers, processedFiles>>
    /\ Quiet

\* lines 10-12: a pool worker runs save_frame for one submitted task
ExSaveFrame ==
    /\ \E task \in executor :
        /\ executor' = executor \ {task}
        /\ folderFiles' = (task.filename :> task.frame) @@ folderFiles
    /\ UNCHANGED <<folderExists, exPc, video_path, frame_interval, progress_callback, cap, frame_count, saved_frames, total_frames, submitted, fsAtCall, storeVars, guiVars, workers, processedFiles>>
    /\ Quiet

\* the end of the with block as it would be if the pool were shut down without
\* waiting for its tasks
PoolNotAwaited(pending) == TRUE

\* line 42: leaving the with block shuts the pool down and waits for its tasks
PoolJoined(pending) == pending = {}

\* lines 42, 60-61: leave the with block (the pool is joined), release, return
ExFinish ==
    /\ exPc = "join"
    /\ PoolJoined(executor)
    /\ cap' = "released"
    /\ exPc' = "returned"
    /\ UNCHANGED <<fsVars, video_path, frame_interval, progress_callback, frame_count, saved_frames, total_frames, executor, submitted, fsAtCall, storeVars, guiVars, workers, processedFiles>>
    /\ Quiet

\* lines 42, 58: the ZeroDivisionError leaves the with block (the pool is
\* joined) and then extract_frames; line 60 is not reached
ExRaise ==
    /\ exPc = "unwind"
    /\ PoolJoined(executor)
    /\ exPc' = "raised"
    /\ UNCHANGED <<fsVars, video_path, frame_interval, progress_callback, cap, frame_count, saved_frames, total_frames, executor, submitted, fsAtCall, storeVars, guiVars, workers, processedFiles>>
    /\ Quiet

(* ---------------- gui/frame_viewer.py: the frame store ---------------- *)
Pair(a, b) == [kind |-> "tuple", fst |-> a, snd |-> b]
Raised(e) == [kind |-> "raised", exc |-> e]

\* s[i] of a Python list, i counted from 0
At(s, i) == s[i + 1]
NoneList(n) == [i \in 1..n |-> None]

Store == [frames |-> frames, processed_frames |-> processed_frames,
          ocr_texts |-> ocr_texts, current_frame_index |-> current_frame_index]

SetStore(st) ==
    /\ frames' = st.frames
    /\ processed_frames' = st.processed_frames
    /\ ocr_texts' = st.ocr_texts
    /\ current_frame_index' = st.current_frame_index

\* load_frames as it would be if the processed list were carried over
load_frames_keeping(st, files) ==
    LET fs == list_images_in_directory(files)
    IN [frames |-> fs,
        processed_frames |-> [i \in 1..Len(fs) |->
                                 IF i <= Len(st.processed_frames) THEN st.processed_frames[i] ELSE None],
        ocr_texts |-> NoneList(Len(fs)),
        current_frame_index |-> 0]

\* lines 83-90
load_frames(st, files) ==
    LET fs == list_images_in_directory(files)
    IN [frames |-> fs,
        processed_frames |-> NoneList(Len(fs)),
        ocr_texts |-> NoneList(Len(fs)),
        current_frame_index |-> 0]

\* lines 142-158: display_frame indexes all three lists at the cursor; the
\* IndexError of a list shorter than frames leaves it through the caller
display_frame(st) ==
    IF st.frames # <<>>
       /\ (st.current_frame_index >= Len(st.processed_frames)
           \/ st.current_frame_index >= Len(st.ocr_texts))
    THEN Raised("IndexError")
    ELSE None

\* next_frame as it would be without its guard
next_frame_unguarded(st) ==
    LET moved == [st EXCEPT !.current_frame_index = @ + 1]
    IN [st |-> moved, ret |-> display_frame(moved)]

\* lines 168-173
next_frame(st) ==
    IF st.frames # <<>> /\ st.current_frame_index < Len(st.frames) - 1
    THEN LET moved == [st EXCEPT !.current_frame_index = @ + 1]
         IN [st |-> moved, ret |-> display_frame(moved)]
    ELSE [st |-> st, ret |-> Pair(None, None)]

\* prev_frame as it would be without its guard (a list index of -1 is valid
\* in Python), and with the guard "> 1"
prev_frame_unguarded(st) ==
    LET moved == [st EXCEPT !.current_frame_index = @ - 1]
    IN [st |-> moved, ret |-> display_frame(moved)]
prev_frame_from_second(st) ==
    IF st.frames # <<>> /\ st.current_frame_index > 1
    THEN LET moved == [st EXCEPT !.current_frame_index = @ - 1]
         IN [st |-> moved, ret |-> display_frame(moved)]
    ELSE [st |-> st, ret |-> Pair(None, None)]

\* lines 175-180
prev_frame(st) ==
    IF st.frames # <<>> /\ st.current_frame_index > 0
    THEN LET moved == [st EXCEPT !.current_frame_index = @ - 1]
         IN [st |-> moved, ret |-> display_frame(moved)]
    ELSE [st |-> st, ret |-> Pair(None, None)]

\* set_frame as it would be with the test "0 <= index <= len(self.frames)"
set_frame_inclusive(st, index) ==
    IF 0 <= index /\ index <= Len(st.frames)
    THEN LET moved == [st EXCEPT !.current_frame_index = index]
         IN [st |-> moved,
             ret |-> IF display_frame(moved) # None THEN display_frame(moved)
                     ELSE IF index >= Len(st.frames) THEN Raised("IndexError")
                     ELSE Pair(At(st.frames, index), At(st.processed_frames, index))]
    ELSE [st |-> st, ret |-> Pair(None, None)]

\* lines 182-188
set_frame(st, index) ==
    IF 0 <= index /\ index < Len(st.frames)
    THEN LET moved == [st EXCEPT !.current_frame_index = index]
         IN [st |-> moved,
             ret |-> IF display_frame(moved) # None THEN display_frame(moved)
                     ELSE Pair(At(st.frames, index), At(st.processed_frames, index))]
    ELSE [st |-> st, ret |-> Pair(None, None)]

\* what a view shows: the picture of a file, or a text
Pixmap(image_path) == [kind |-> "pixmap", s |-> "", of |-> image_path]
Text(s) == [kind |-> "str", s |-> s, of |-> None]

\* the truth value Python gives a list entry: None and "" are false
Truthy(x) == x # None /\ (x.kind = "str" => x.s # "")

\* lines 160-166, _update_pixmap: what the label is given; files are the files
\* that exist
update_pixmap(image_path, files, error_message) ==
    IF Truthy(image_path) /\ image_path \in files
    THEN Pixmap(image_path)
    ELSE Text(error_message)

\* lines 144-158: what display_frame gives the two views and the text display
\* for the frame at the cursor (frames is not empty and the cursor is inside all
\* three lists)
displayed(st, files) ==
    LET frame_path == At(st.frames, st.current_frame_index)
        processed_frame_path == At(st.processed_frames, st.current_frame_index)
        ocr_text == At(st.ocr_texts, st.current_frame_index)
    IN [originalView |-> update_pixmap(frame_path, files, "Original frame not found."),
        processedView |-> update_pixmap(processed_frame_path, files, "Processed frame not found."),
        text_display |-> IF Truthy(ocr_text) THEN ocr_text ELSE Text("")]

(* ---------------- scripts/image_processing.py ---------------- *)
\* the entries of MainWindow.processingModeDropdown, which are the processing
\* types process_image knows
DropdownModes ==
    {"Edge Detection", "Thresholding", "Morphological Operations",
     "Adaptive Thresholding", "Gaussian Blur", "Sharpening",
     "Histogram Equalization", "Median Blur", "Bilateral Filter"}

\* a processing type that is none of them
UnknownMode == "Unknown"
NoMode == "none"

\* what can happen to one frame of a process-all batch:
\*   "ok"    the frame is processed and saved
\*   "none"  process_image returns None (image unreadable)
\*   "exc"   process_image, ensure_directory_exists or cv2.imwrite raises
FrameOutcomes == {"ok", "none", "exc"}

\* a processed image: which mode made it, of which frame
Processed(mode, image) == [kind |-> "image", mode |-> mode, of |-> image]

\* process_image(image_path, processing_type=mode), lines 23-55: image is what
\* the file at image_path holds
process_image(image, outcome, mode) ==
    IF outcome = "none" THEN None
    ELSE IF mode \notin DropdownModes THEN None
    ELSE IF outcome = "exc" THEN Raised("Exception")
    ELSE Processed(mode, image)

\* one call of an OpenCV function: its name, its flags and its numeric arguments
\* (an n by m kernel is given by its entries, row after row)
Cv2(fn, how, args) == [fn |-> fn, how |-> how, args |-> args]
GaussianBlur == Cv2("GaussianBlur", "", <<5, 5, 0>>)
\* apply_edge_detection, lines 67-68
apply_edge_detection == <<GaussianBlur, Cv2("Canny", "", <<50, 150>>)>>
\* utils/common.py, apply_threshold, lines 36-37
apply_threshold == <<Cv2("threshold", "THRESH_BINARY+THRESH_OTSU", <<0, 255>>)>>
\* utils/common.py, apply_morphological_operations, lines 75-76: np.ones((3, 3))
apply_morphological_operations ==
    <<Cv2("morphologyEx", "MORPH_CLOSE", <<1, 1, 1, 1, 1, 1, 1, 1, 1>>)>>

\* lines 29-47: the OpenCV calls process_image makes on the grayscale image for
\* a processing type, in order
transforms(processing_type) ==
    CASE processing_type = "Edge Detection" -> apply_edge_detection
      [] processing_type = "Thresholding" -> apply_threshold
      [] processing_type = "Morphological Operations" -> apply_morphological_operations
      [] processing_type = "Adaptive Thresholding" ->
            <<Cv2("adaptiveThreshold", "ADAPTIVE_THRESH_GAUSSIAN_C,THRESH_BINARY", <<255, 11, 2>>)>>
      [] processing_type = "Gaussian Blur" -> <<GaussianBlur>>
      [] processing_type = "Sharpening" ->
            <<Cv2("filter2D", "", <<0, -1, 0, -1, 5, -1, 0, -1, 0>>)>>
      [] processing_type = "Histogram Equalization" -> <<Cv2("equalizeHist", "", <<>>)>>
      [] processing_type = "Median Blur" -> <<Cv2("medianBlur", "", <<5>>)>>
      [] processing_type = "Bilateral Filter" -> <<Cv2("bilateralFilter", "", <<9, 75, 75>>)>>
      [] OTHER -> <<>>

(* ---------------- gui/frame_viewer.py: the batch workers ---------------- *)
\* int((index + 1) / len(...) * 100)
Percent(k, n) == (k * 100) \div n

\* FrameProcessingWorker(self.frames, ...), lines 210-218
FrameWorker(id, input, mode) ==
    [id |-> id, kind |-> "frames", input |-> input, mode |-> mode, index |-> 0,
     result |-> NoneList(Len(input)), outcomes |-> <<>>, calls |-> <<>>,
     progress |-> <<>>, cancelled |-> FALSE]

\* the loop of process_frames as it would be if a failed frame ended it
process_frames_aborting(w, outcome) ==
    IF outcome = "ok"
    THEN [w EXCEPT !.result[w.index + 1] = ProcessedPath(At(w.input, w.index)),
                   !.index = @ + 1,
                   !.outcomes = Append(@, outcome)]
    ELSE [w EXCEPT !.index = Len(w.input), !.outcomes = Append(@, outcome)]

\* the loop of process_frames as it would be if the slot were set before the
\* result of process_image is looked at
process_frames_unchecked(w, outcome) ==
    [w EXCEPT !.result[w.index + 1] = ProcessedPath(At(w.input, w.index)),
              !.index = @ + 1,
              !.outcomes = Append(@, outcome)]

\* lines 220-237: one iteration of the loop of process_frames; the frame's
\* content does not decide which branch is taken
process_frames(w, outcome) ==
    IF process_image(None, outcome, w.mode).kind = "image"
    THEN [w EXCEPT !.result[w.index + 1] = ProcessedPath(At(w.input, w.index)),
                   !.index = @ + 1,
                   !.outcomes = Append(@, outcome),
                   !.progress = Append(@, Percent(w.index + 1, Len(w.input)))]
    ELSE [w EXCEPT !.index = @ + 1, !.outcomes = Append(@, outcome)]

\* line 231: cv2.imwrite(processed_path, processed_frame), reached when the slot is set
frame_written(w, outcome, files) ==
    LET frame_path == At(w.input, w.index)
        image == IF frame_path \in DOMAIN files THEN files[frame_path] ELSE None
    IN IF process_frames(w, outcome).result[w.index + 1] # None
       THEN (ProcessedPath(frame_path) :> process_image(image, outcome, w.mode))
       ELSE << >>

(* ---------------- gui/ocr_processor.py ---------------- *)
\* what can happen to one call of OCRProcessor.process_ocr:
\*   "text"          the engine detects text
\*   "blank"         the engine detects nothing: the stripped text is ""
\*   "unreadable"    load_grayscale_image returns None
\*   "no_engine"     pytesseract raises TesseractNotFoundError
\*   "engine_error"  pytesseract raises TesseractError
\*   "raised"        any other exception leaves process_ocr
OcrOutcomes == {"text", "blank", "unreadable", "no_engine", "engine_error", "raised"}

\* a string that is no detected text
Str(s) == [kind |-> "str", s |-> s, of |-> None]
\* the text detected in an image
Detected(image) == [kind |-> "str", s |-> "detected", of |-> image]

\* OCRProcessor.process_ocr(image_path, return_text=True), lines 60-140
ocr_process_ocr(image_path, outcome, files) ==
    IF image_path = None THEN Str("")
    ELSE IF outcome = "unreadable" \/ image_path \notin DOMAIN files THEN Str("")
    ELSE IF outcome = "no_engine" THEN Str("")
    ELSE IF outcome = "engine_error" THEN Str("")
    ELSE IF outcome = "raised" THEN Raised("Exception")
    ELSE IF outcome = "blank" THEN Str("")
    ELSE Detected(files[image_path])

\* one entry of ocr_data['conf'] (line 88, output_type DICT): pytesseract hands
\* a cell of the engine's table over as an int where its own conversion accepts
\* the cell, and as the str of the cell where it does not; which of the two -1
\* becomes depends on the pytesseract release installed
IntConf(v) == [type |-> "int", v |-> v]
StrConf(v) == [type |-> "str", v |-> v]
ConfEntries == {IntConf(v) : v \in ConfValues} \cup {StrConf(v) : v \in ConfValues}
ConfLists == UNION {[1..n -> ConfEntries] : n \in 0..MaxWords}

\* line 102, conf != '-1': in Python an int never equals a str
differs_from_minus_one_str(conf) == ~(conf.type = "str" /\ conf.v = UnknownConf)

\* line 102: confidences = [int(conf) for conf in ocr_data['conf'] if conf != '-1']
RECURSIVE confidences(_)
confidences(conf) ==
    IF conf = <<>> THEN <<>>
    ELSE IF differs_from_minus_one_str(Head(conf))
         THEN <<Head(conf).v>> \o confidences(Tail(conf))
         ELSE confidences(Tail(conf))

\* sum(confidences)
RECURSIVE sum(_)
sum(numbers) == IF numbers = <<>> THEN 0 ELSE Head(numbers) + sum(Tail(numbers))

\* line 103: sum(confidences) / len(confidences) if confidences else 0, the
\* quotient kept as a fraction
avg_confidence(conf) ==
    IF confidences(conf) # <<>>
    THEN [num |-> sum(confidences(conf)), den |-> Len(confidences(conf))]
    ELSE [num |-> 0, den |-> 1]

(* ---------------- gui/frame_viewer.py: the OCR batch ---------------- *)
\* OCRProcessingWorker(self.processed_frames, ...), lines 292-299
OcrWorker(id, input) ==
    [id |-> id, kind |-> "ocr", input |-> input, mode |-> NoMode, index |-> 0,
     result |-> NoneList(Len(input)), outcomes |-> <<>>, calls |-> <<>>,
     progress |-> <<>>, cancelled |-> FALSE]

\* whether self.ocr_processor.process_ocr was called for a frame, and with what
CalledWith(image_path) == [called |-> TRUE, image_path |-> image_path]
NotCalled == [called |-> FALSE, image_path |-> None]

\* the loop of process_ocr as it would be without the test of frame_path
process_ocr_untested(w, outcome, files) ==
    LET frame_path == At(w.input, w.index)
        got == ocr_process_ocr(frame_path, outcome, files)
    IN [w EXCEPT !.result[w.index + 1] = got,
                 !.index = @ + 1,
                 !.outcomes = Append(@, outcome),
                 !.calls = Append(@, CalledWith(frame_path)),
                 !.progress = Append(@, Percent(w.index + 1, Len(w.input)))]

\* lines 301-312: one iteration of the loop of process_ocr; calls records what
\* was handed to the OCR processor for the frame
process_ocr(w, outcome, files) ==
    LET frame_path == At(w.input, w.index)
        got == ocr_process_ocr(frame_path, outcome, files)
    IN IF frame_path = None
       THEN [w EXCEPT !.result[w.index + 1] = Str("No processed frame available."),
                      !.index = @ + 1,
                      !.outcomes = Append(@, "sentinel"),
                      !.calls = Append(@, NotCalled),
                      !.progress = Append(@, Percent(w.index + 1, Len(w.input)))]
       ELSE IF got.kind = "raised"
       THEN [w EXCEPT !.result[w.index + 1] = Str("OCR Error"),
                      !.index = @ + 1,
                      !.outcomes = Append(@, outcome),
                      !.calls = Append(@, CalledWith(frame_path))]
       ELSE [w EXCEPT !.result[w.index + 1] = got,
                      !.index = @ + 1,
                      !.outcomes = Append(@, outcome),
                      !.calls = Append(@, CalledWith(frame_path)),
                      !.progress = Append(@, Percent(w.index + 1, Len(w.input)))]

Running(w) == w.index < Len(w.input)

\* FrameProcessingRunnable.run on a pool thread
FrameWorkerStep ==
    /\ ~crashed
    /\ \E w \in workers, outcome \in FrameOutcomes :
        /\ w.kind = "frames"
        /\ Running(w)
        /\ workers' = (workers \ {w}) \cup {process_frames(w, outcome)}
        /\ processedFiles' = frame_written(w, outcome, folderFiles) @@ processedFiles
    /\ UNCHANGED <<fsVars, exVars, storeVars, guiVars>>
    /\ Quiet

\* OCRProcessingRunnable.run on a pool thread
OcrWorkerStep ==
    /\ ~crashed
    /\ \E w \in workers, outcome \in OcrOutcomes :
        /\ w.kind = "ocr"
        /\ Running(w)
        /\ (At(w.input, w.index) = None => outcome = "unreadable")
        /\ workers' = (workers \ {w}) \cup {process_ocr(w, outcome, processedFiles)}
    /\ UNCHANGED <<fsVars, exVars, storeVars, guiVars, processedFiles>>
    /\ Quiet

(* ---------------- gui/main_window.py: the frame slider ---------------- *)
\* lines 108-110: QSlider(Qt.Horizontal) as Qt constructs it, setMinimum(0),
\* setEnabled(False)
NewSlider == [minimum |-> 0, maximum |-> SliderDefaultMax, value |-> 0, enabled |-> FALSE]

Bound(lo, v, hi) == IF v < lo THEN lo ELSE IF v > hi THEN hi ELSE v

\* QAbstractSlider.setRange: the maximum is at least the minimum, and the value
\* is brought into the new range
setRange(slider, min, max) ==
    LET top == IF max < min THEN min ELSE max
    IN [slider EXCEPT !.minimum = min, !.maximum = top, !.value = Bound(min, @, top)]

\* line 159, QAbstractSlider.setMaximum(max): setRange(qMin(minimum, max), max)
setMaximum(slider, max) ==
    setRange(slider, IF max < slider.minimum THEN max ELSE slider.minimum, max)

\* lines 176, 181, QAbstractSlider.setValue: the value is bound to the range
setValue(slider, value) ==
    [slider EXCEPT !.value = Bound(slider.minimum, value, slider.maximum)]

\* valueChanged is emitted when the value is another one than before
valueChanged(before, after) == after.value # before.value

(* ---------------- gui/video_loader.py ---------------- *)
ThreadRunning == exPc # "idle"

\* MainWindow.loadVideo (main_window.py 146-151) with VideoLoader.load_video
\* (video_loader.py 55-86): the folder is ensured, then a new extraction thread
\* replaces self.thread and is started. Replacing a thread that is still running
\* destroys a running QThread, which aborts the process; a finished signal of the
\* replaced thread that is still queued may be delivered or dropped.
loadVideo ==
    /\ ~crashed
    /\ commands < budget
    /\ \E v \in library :
        /\ commands' = commands + 1
        /\ folderExists' = TRUE
        /\ IF ThreadRunning
           THEN /\ crashed' = TRUE
                /\ UNCHANGED <<exVars, finishedSignals>>
           ELSE /\ CallExtract(v, FrameInterval, TRUE)
                /\ fsAtCall' = [exists |-> TRUE, files |-> folderFiles]
                /\ finishedSignals' \in {finishedSignals, <<>>}
                /\ crashed' = FALSE
    /\ last' = Call("loadVideo", 0, None)
    /\ seekTrail' = NoTrail
    /\ UNCHANGED <<folderFiles, storeVars, processFramesButton, processOCRButton, workers, processedFiles, budget, library, modes, status_progress, frameSlider>>

\* run has returned: the call frame of extract_frames is gone
ThreadGone ==
    /\ exPc' = "idle"
    /\ video_path' = NoVideo
    /\ frame_interval' = FrameInterval
    /\ progress_callback' = FALSE
    /\ cap' = "none"
    /\ frame_count' = 0
    /\ saved_frames' = 0
    /\ total_frames' = 0
    /\ executor' = {}
    /\ submitted' = <<>>
    /\ fsAtCall' = [exists |-> folderExists, files |-> folderFiles]

\* FrameExtractionThread.run (video_loader.py 31-39): extract_frames has
\* returned (its return value, None in every case, is dropped) and finished is
\* emitted; the emission is queued for the main thread
ThreadEmitFinished ==
    /\ ~crashed
    /\ exPc = "returned"
    /\ finishedSignals' = Append(finishedSignals,
                                 [video |-> video_path, opened |-> cap = "released", saved |-> saved_frames])
    /\ ThreadGone
    /\ UNCHANGED fsVars
    /\ UNCHANGED <<storeVars, processFramesButton, processOCRButton, commands, budget, library, modes, status_progress, frameSlider, crashed, workers, processedFiles>>
    /\ Quiet

\* FrameExtractionThread.run (video_loader.py 31-39): the exception of
\* extract_frames leaves run, line 39 is not reached and finished is never
\* emitted; PyQt either aborts the process or reports and lets the thread end
ThreadRaised ==
    /\ ~crashed
    /\ exPc = "raised"
    /\ crashed' \in BOOLEAN
    /\ ThreadGone
    /\ UNCHANGED fsVars
    /\ UNCHANGED <<storeVars, processFramesButton, processOCRButton, finishedSignals, commands, budget, library, modes, status_progress, frameSlider, workers, processedFiles>>
    /\ Quiet

(* ---------------- gui/main_window.py ---------------- *)
\* a slot that raises: PyQt either aborts the process or reports and goes on
AfterSlot(ret) == IF ret.kind = "raised" THEN BOOLEAN ELSE {FALSE}

\* "if self.frameViewer.frames: self.frameViewer.set_frame(0)"
ShowFirst(st) == IF st.frames # <<>> THEN set_frame(st, 0) ELSE [st |-> st, ret |-> None]

\* MainWindow.onFramesExtracted (153-167)
onFramesExtracted ==
    /\ ~crashed
    /\ finishedSignals # <<>>
    /\ LET loaded == load_frames(Store, folderFiles)
           slider == setMaximum(frameSlider, Len(loaded.frames) - 1)
           slid == IF valueChanged(frameSlider, slider)
                   THEN set_frame(loaded, slider.value).st
                   ELSE loaded
           r == ShowFirst(slid)
       IN /\ SetStore(r.st)
          /\ frameSlider' = [slider EXCEPT !.enabled = TRUE]
          /\ last' = Call("onFramesExtracted", Head(finishedSignals), r.ret)
          /\ crashed' \in AfterSlot(r.ret)
    /\ finishedSignals' = Tail(finishedSignals)
    /\ processFramesButton' = TRUE
    /\ seekTrail' = NoTrail
    /\ UNCHANGED <<fsVars, exVars, processOCRButton, commands, budget, library, modes, status_progress, workers, processedFiles>>

\* FrameViewer.process_all_frames (frame_viewer.py 253-271): the worker is made
\* and handed to the thread pool
process_all_frames(id, processing_mode) ==
    workers' = workers \cup {FrameWorker(id, frames, processing_mode)}

\* FrameViewer.process_all_ocr (frame_viewer.py 328-346)
process_all_ocr(id) ==
    workers' = workers \cup {OcrWorker(id, processed_frames)}

\* MainWindow.processFrames (183-199) with FrameViewer.process_all_frames
\* (frame_viewer.py 253-271): the worker is given the list self.frames refers to now
processFrames ==
    /\ ~crashed
    /\ processFramesButton
    /\ commands < budget
    /\ commands' = commands + 1
    /\ \E selected_mode \in modes \cap DropdownModes :
        process_all_frames(commands + 1, selected_mode)
    /\ last' = Call("processFrames", 0, None)
    /\ seekTrail' = NoTrail
    /\ UNCHANGED <<fsVars, exVars, storeVars, processFramesButton, processOCRButton, finishedSignals, budget, library, modes, status_progress, frameSlider, crashed, processedFiles>>

\* MainWindow.processOCR (201-215) with FrameViewer.process_all_ocr
\* (frame_viewer.py 328-346): the worker is given the list self.processed_frames
\* refers to now
processOCR ==
    /\ ~crashed
    /\ processOCRButton
    /\ commands < budget
    /\ commands' = commands + 1
    /\ process_all_ocr(commands + 1)
    /\ last' = Call("processOCR", 0, None)
    /\ seekTrail' = NoTrail
    /\ UNCHANGED <<fsVars, exVars, storeVars, processFramesButton, processOCRButton, finishedSignals, budget, library, modes, status_progress, frameSlider, crashed, processedFiles>>

\* main_window.py 190-197, what on_finished makes of the store
frames_finished(st, result) == [st EXCEPT !.processed_frames = result]

\* the worker's finished signal (frame_viewer.py 239) delivered on the main
\* thread: on_finished of process_all_frames (261-263), then
\* MainWindow.processFrames.on_finished (190-197)
onProcessingFinished ==
    /\ ~crashed
    /\ \E w \in workers :
        /\ w.kind = "frames"
        /\ ~Running(w)
        /\ workers' = workers \ {w}
        /\ LET r == ShowFirst(frames_finished(Store, w.result))
           IN /\ SetStore(r.st)
              /\ last' = Call("processFrames.on_finished", [id |-> w.id, progress |-> w.progress], r.ret)
              /\ crashed' \in AfterSlot(r.ret)
    /\ processOCRButton' = TRUE
    /\ seekTrail' = NoTrail
    /\ UNCHANGED <<fsVars, exVars, processFramesButton, finishedSignals, commands, budget, library, modes, status_progress, frameSlider, processedFiles>>

\* main_window.py 206-212
ocr_finished(st, result) == [st EXCEPT !.ocr_texts = result]

\* the worker's finished signal (frame_viewer.py 314) delivered on the main
\* thread: on_finished of process_all_ocr (336-338), then
\* MainWindow.processOCR.on_finished (206-212)
onOcrFinished ==
    /\ ~crashed
    /\ \E w \in workers :
        /\ w.kind = "ocr"
        /\ ~Running(w)
        /\ workers' = workers \ {w}
        /\ LET r == ShowFirst(ocr_finished(Store, w.result))
           IN /\ SetStore(r.st)
              /\ last' = Call("processOCR.on_finished", [id |-> w.id, progress |-> w.progress], r.ret)
              /\ crashed' \in AfterSlot(r.ret)
    /\ seekTrail' = NoTrail
    /\ UNCHANGED <<fsVars, exVars, processFramesButton, processOCRButton, finishedSignals, commands, budget, library, modes, status_progress, frameSlider, processedFiles>>

\* FrameViewer.process_all_frames called with a processing mode that is no
\* entry of the dropdown, and with the callbacks MainWindow.processFrames gives it
CallProcessAllFrames ==
    /\ ~crashed
    /\ commands < budget
    /\ commands' = commands + 1
    /\ \E processing_mode \in modes \ DropdownModes :
        /\ process_all_frames(commands + 1, processing_mode)
        /\ last' = Call("process_all_frames", processing_mode, None)
    /\ seekTrail' = NoTrail
    /\ UNCHANGED <<fsVars, exVars, storeVars, processFramesButton, processOCRButton, finishedSignals, budget, library, modes, status_progress, frameSlider, crashed, processedFiles>>

\* the user presses "Cancel" on the QProgressDialog of a batch (frame_viewer.py
\* 254-256, 329-331): the dialog hides; its canceled signal is connected to nothing
CancelBatch ==
    /\ ~crashed
    /\ commands < budget
    /\ commands' = commands + 1
    /\ \E w \in workers :
        /\ ~w.cancelled
        /\ workers' = (workers \ {w}) \cup {[w EXCEPT !.cancelled = TRUE]}
        /\ last' = Call("cancel", w.id, None)
    /\ seekTrail' = NoTrail
    /\ UNCHANGED <<fsVars, exVars, storeVars, processFramesButton, processOCRButton, finishedSignals, budget, library, modes, status_progress, frameSlider, crashed, processedFiles>>

(* ---------------- gui/main_window.py: navigation ---------------- *)
\* lines 169-171: valueChanged(value) runs MainWindow.setFrame(value)
setFrame(value) ==
    LET r == set_frame(Store, value)
    IN /\ SetStore(r.st)
       /\ last' = Call("setFrame", value, r.ret)
       /\ crashed' \in AfterSlot(r.ret)

\* the user drags the slider to another value of its range
sliderMoved ==
    /\ ~crashed
    /\ frameSlider.enabled
    /\ \E value \in frameSlider.minimum..frameSlider.maximum :
        /\ frameSlider' = setValue(frameSlider, value)
        /\ valueChanged(frameSlider, frameSlider')
        /\ setFrame(value)
    /\ seekTrail' = NoTrail
    /\ UNCHANGED <<fsVars, exVars, processFramesButton, processOCRButton, finishedSignals, commands, budget, library, modes, status_progress, workers, processedFiles>>

\* lines 173-176: Previous Frame pressed with the slider above 0
prevFrame ==
    /\ ~crashed
    /\ frameSlider.enabled
    /\ frameSlider.value > 0
    /\ frameSlider' = setValue(frameSlider, frameSlider.value - 1)
    /\ IF valueChanged(frameSlider, frameSlider')
       THEN setFrame(frameSlider'.value)
       ELSE UNCHANGED <<storeVars, crashed>> /\ last' = Call("prevFrame", 0, None)
    /\ seekTrail' = NoTrail
    /\ UNCHANGED <<fsVars, exVars, processFramesButton, processOCRButton, finishedSignals, commands, budget, library, modes, status_progress, workers, processedFiles>>

\* lines 178-181: Next Frame pressed with the slider below its maximum
nextFrame ==
    /\ ~crashed
    /\ frameSlider.enabled
    /\ frameSlider.value < frameSlider.maximum
    /\ frameSlider' = setValue(frameSlider, frameSlider.value + 1)
    /\ IF valueChanged(frameSlider, frameSlider')
       THEN setFrame(frameSlider'.value)
       ELSE UNCHANGED <<storeVars, crashed>> /\ last' = Call("nextFrame", 0, None)
    /\ seekTrail' = NoTrail
    /\ UNCHANGED <<fsVars, exVars, processFramesButton, processOCRButton, finishedSignals, commands, budget, library, modes, status_progress, workers, processedFiles>>

(* ---------------- navigation calls on the frame store ---------------- *)
NextFrame ==
    /\ ~crashed
    /\ LET r == next_frame(Store)
       IN /\ SetStore(r.st)
          /\ last' = Call("next_frame", 0, r.ret)
    /\ seekTrail' = IF seekTrail.stage = 2 THEN [seekTrail EXCEPT !.stage = 3] ELSE NoTrail
    /\ UNCHANGED <<fsVars, exVars, guiVars, workers, processedFiles>>

PrevFrame ==
    /\ ~crashed
    /\ LET r == prev_frame(Store)
       IN /\ SetStore(r.st)
          /\ last' = Call("prev_frame", 0, r.ret)
    /\ seekTrail' = IF seekTrail.stage = 1 THEN [seekTrail EXCEPT !.stage = 2] ELSE NoTrail
    /\ UNCHANGED <<fsVars, exVars, guiVars, workers, processedFiles>>

\* the indices tried: every valid one, -1 and len(frames)
SetFrame ==
    /\ ~crashed
    /\ \E index \in (-1)..Len(frames) :
        /\ LET r == set_frame(Store, index)
           IN /\ SetStore(r.st)
              /\ last' = Call("set_frame", index, r.ret)
        /\ seekTrail' = IF 0 <= index /\ index < Len(frames)
                        THEN [stage |-> 1, index |-> index]
                        ELSE NoTrail
    /\ UNCHANGED <<fsVars, exVars, guiVars, workers, processedFiles>>

(* ---------------- the application ---------------- *)
InitFolder ==
    \/ folderExists = FALSE /\ folderFiles = << >>
    \/ folderExists = TRUE /\ folderFiles = (ForeignFile :> Frame(NoVideo, 0))

InitWindow(b, lib, ms) ==
    /\ budget = b
    /\ library = lib
    /\ modes = ms
    /\ status_progress = <<>>
    /\ frameSlider = NewSlider
    /\ frames = <<>>
    /\ processed_frames = <<>>
    /\ ocr_texts = <<>>
    /\ current_frame_index = 0
    /\ processFramesButton = FALSE
    /\ processOCRButton = FALSE
    /\ finishedSignals = <<>>
    /\ workers = {}
    /\ commands = 0
    /\ crashed = FALSE
    /\ seekTrail = NoTrail

InitGui(b, lib, ms) == InitWindow(b, lib, ms) /\ processedFiles = << >>

InitApp(b, lib, ms) == InitGui(b, lib, ms) /\ last = NoCall

InitIdle ==
    /\ folderExists = TRUE
    /\ folderFiles = (ForeignFile :> Frame(NoVideo, 0))
    /\ exPc = "idle"
    /\ video_path = NoVideo
    /\ frame_interval = FrameInterval
    /\ progress_callback = FALSE
    /\ cap = "none"
    /\ frame_count = 0
    /\ saved_frames = 0
    /\ total_frames = 0
    /\ executor = {}
    /\ submitted = <<>>
    /\ fsAtCall = [exists |-> folderExists, files |-> folderFiles]

Init == InitIdle /\ InitApp(MaxCommands, Library(MaxT), {"Edge Detection"})

ExtractionStep ==
    /\ ~crashed
    /\ \/ ExMissing
       \/ ExOpenFail
       \/ ExOpenOk
       \/ ExRead
       \/ ExSaveFrame
       \/ ExFinish
       \/ ExRaise

Next ==
    \/ loadVideo
    \/ ExtractionStep
    \/ ThreadEmitFinished
    \/ ThreadRaised
    \/ onFramesExtracted
    \/ processFrames
    \/ processOCR
    \/ FrameWorkerStep
    \/ OcrWorkerStep
    \/ onProcessingFinished
    \/ onOcrFinished

Spec == Init /\ [][Next]_vars

(* ---------------- loads, process-all batches and navigation ---------------- *)
\* the user loads videos, runs process-all batches and meanwhile moves through
\* the frames; no OCR batch is started
InitViewer == InitIdle /\ InitApp(MaxViewerCommands, Library(MaxViewerT), {"Edge Detection"})

NextViewer ==
    \/ loadVideo
    \/ ExtractionStep
    \/ ThreadEmitFinished
    \/ ThreadRaised
    \/ onFramesExtracted
    \/ processFrames
    \/ FrameWorkerStep
    \/ onProcessingFinished
    \/ NextFrame
    \/ PrevFrame
    \/ SetFrame

SpecViewer == InitViewer /\ [][NextViewer]_vars

(* ---------------- batches run again with another mode ---------------- *)
\* short videos, more commands, two entries of the dropdown
InitRerun ==
    InitIdle /\ InitApp(MaxRerunCommands, Library(MaxBatchT), {"Edge Detection", "Thresholding"})

SpecRerun == InitRerun /\ [][Next]_vars

(* ---------------- batches cancelled, and given an unknown mode ---------------- *)
\* short videos; process_all_frames is also called with a mode that is no entry
\* of the dropdown, and batches are cancelled
InitBatch ==
    InitIdle /\ InitApp(MaxBatchCommands, Library(MaxBatchT), {"Edge Detection", UnknownMode})

NextBatch ==
    \/ Next
    \/ CallProcessAllFrames
    \/ CancelBatch

SpecBatch == InitBatch /\ [][NextBatch]_vars

(* ---------------- extract_frames called directly ---------------- *)
InitExtract ==
    /\ InitFolder
    /\ exPc = "start"
    /\ video_path \in AllVideos
    /\ frame_interval \in 1..MaxInterval
    /\ progress_callback \in BOOLEAN
    /\ cap = "none"
    /\ frame_count = 0
    /\ saved_frames = 0
    /\ total_frames = 0
    /\ executor = {}
    /\ submitted = <<>>
    /\ fsAtCall = [exists |-> folderExists, files |-> folderFiles]
    /\ InitApp(0, {}, {})

NextExtract ==
    \/ ExMissing
    \/ ExOpenFail
    \/ ExOpenOk
    \/ ExRead
    \/ ExSaveFrame
    \/ ExFinish
    \/ ExRaise

SpecExtract == InitExtract /\ [][NextExtract]_vars

(* ---------------- the main window's navigation controls ---------------- *)
\* the user loads videos, runs process-all batches and moves through the frames
\* with the slider and the two buttons of the window
InitNav == InitIdle /\ InitApp(MaxNavCommands, Library(MaxNavT), {"Edge Detection"})

NextNav ==
    \/ loadVideo
    \/ ExtractionStep
    \/ ThreadEmitFinished
    \/ ThreadRaised
    \/ onFramesExtracted
    \/ processFrames
    \/ FrameWorkerStep
    \/ onProcessingFinished
    \/ sliderMoved
    \/ prevFrame
    \/ nextFrame

SpecNav == InitNav /\ [][NextNav]_vars

(* ---------------- the aggregate confidence of one OCR call ---------------- *)
\* the arguments a function is about to be called with
Given(arg) == Call("given", arg, None)

InitConf ==
    /\ InitIdle
    /\ InitGui(0, {}, {})
    /\ \E conf \in ConfLists : last = Given(conf)

\* lines 102-103 of OCRProcessor.process_ocr on the table the engine returned
AggregateConfidence ==
    /\ last.op = "given"
    /\ last' = Call("avg_confidence", last.arg, avg_confidence(last.arg))
    /\ UNCHANGED <<fsVars, exVars, storeVars, guiVars, workers, processedFiles, seekTrail>>

NextConf == AggregateConfidence

SpecConf == InitConf /\ [][NextConf]_vars

(* ---------------- process_image called directly ---------------- *)
FilterImages ==
    UNION {{Frame(Video("ok", t, t), i) : i \in 0..(t - 1)} : t \in 1..MaxFilterT}

InitFilter ==
    /\ InitIdle
    /\ InitGui(0, {}, {})
    /\ \E image \in FilterImages, outcome \in FrameOutcomes,
          processing_type \in DropdownModes \cup {UnknownMode} :
            last = Given([image |-> image, outcome |-> outcome,
                          processing_type |-> processing_type])

\* process_image(image_path, processing_type=...): what it returns, and the
\* OpenCV calls it made to get it
ProcessImage ==
    /\ last.op = "given"
    /\ LET a == last.arg
           processed == process_image(a.image, a.outcome, a.processing_type)
       IN last' = Call("process_image", a,
                       [processed |-> processed,
                        applied |-> IF processed.kind = "image"
                                    THEN transforms(a.processing_type) ELSE <<>>])
    /\ UNCHANGED <<fsVars, exVars, storeVars, guiVars, workers, processedFiles, seekTrail>>

NextFilter == ProcessImage

SpecFilter == InitFilter /\ [][NextFilter]_vars

(* ---------------- gui/ocr_processor.py: process_ocr_batch ---------------- *)
\* the images of the batch: processed frames of a video of MaxOcrBatch frames
OcrVideo == Video("ok", MaxOcrBatch, MaxOcrBatch)
OcrImagePath(i) == ProcessedPath(FrameFilename(i))
OcrImageFiles ==
    [p \in {OcrImagePath(i) : i \in 0..(MaxOcrBatch - 1)} |->
        Processed("Edge Detection",
                  Frame(OcrVideo, CHOOSE i \in 0..(MaxOcrBatch - 1) : OcrImagePath(i) = p))]

\* the lists process_ocr_batch is called with, and what the engine does with
\* each entry
OcrBatchArgs ==
    UNION {[image_paths : [1..n -> DOMAIN OcrImageFiles \cup {None}],
            outcomes : [1..n -> OcrOutcomes]] : n \in 0..MaxOcrBatch}

\* the call in progress: results is the list of line 163, next the index the
\* for loop of line 171 is at, progress the values progress_callback was given
OcrBatchCall(args) ==
    [kind |-> "ocr_batch", image_paths |-> args.image_paths,
     outcomes |-> args.outcomes, results |-> NoneList(Len(args.image_paths)),
     next |-> 0, progress |-> <<>>]

\* process_single writing its result where the results completed so far end
process_single_in_completion_order(call, task, files) ==
    LET got == ocr_process_ocr(task.image_path, call.outcomes[task.index + 1], files)
    IN IF got.kind = "raised" THEN call
       ELSE [call EXCEPT !.results[Len(call.progress) + 1] = got,
                         !.progress = Append(@, task.index + 1)]

\* lines 165-168, process_single(index, image_path) on a pool thread: an
\* exception of process_ocr ends the task and stays in its future, which nobody
\* reads
process_single(call, task, files) ==
    LET got == ocr_process_ocr(task.image_path, call.outcomes[task.index + 1], files)
    IN IF got.kind = "raised" THEN call
       ELSE [call EXCEPT !.results[task.index + 1] = got,
                         !.progress = Append(@, task.index + 1)]

InitOcrBatch ==
    /\ InitIdle
    /\ InitWindow(0, {}, {})
    /\ processedFiles = OcrImageFiles
    /\ \E args \in OcrBatchArgs : last = Given(args)

\* line 163: process_ocr_batch(image_paths, progress_callback) is called
OcrBatchStart ==
    /\ last.op = "given"
    /\ workers = {}
    /\ workers' = {OcrBatchCall(last.arg)}
    /\ last' = Call("process_ocr_batch", last.arg, None)
    /\ UNCHANGED <<fsVars, exVars, storeVars, guiVars, processedFiles, seekTrail>>

\* lines 171-172: one iteration of the for loop submits one task
OcrBatchSubmit ==
    /\ \E call \in workers :
        /\ call.kind = "ocr_batch"
        /\ call.next < Len(call.image_paths)
        /\ executor' = executor \cup
                {[index |-> call.next, image_path |-> At(call.image_paths, call.next)]}
        /\ workers' = {[call EXCEPT !.next = @ + 1]}
    /\ UNCHANGED <<fsVars, exPc, video_path, frame_interval, progress_callback, cap, frame_count, saved_frames, total_frames, submitted, fsAtCall, storeVars, guiVars, processedFiles, last, seekTrail>>

\* a pool thread runs one submitted task, any of those waiting
OcrBatchRun ==
    /\ \E call \in workers, task \in executor :
        /\ call.kind = "ocr_batch"
        /\ executor' = executor \ {task}
        /\ workers' = {process_single(call, task, processedFiles)}
    /\ UNCHANGED <<fsVars, exPc, video_path, frame_interval, progress_callback, cap, frame_count, saved_frames, total_frames, submitted, fsAtCall, storeVars, guiVars, processedFiles, last, seekTrail>>

\* lines 170, 174: the with block is left when every task has run; return results
OcrBatchReturn ==
    /\ \E call \in workers :
        /\ call.kind = "ocr_batch"
        /\ call.next = Len(call.image_paths)
        /\ PoolJoined(executor)
        /\ workers' = {}
        /\ last' = Call("process_ocr_batch.return",
                        [image_paths |-> call.image_paths, outcomes |-> call.outcomes,
                         progress |-> call.progress],
                        call.results)
    /\ UNCHANGED <<fsVars, exVars, storeVars, guiVars, processedFiles, seekTrail>>

NextOcrBatch ==
    \/ OcrBatchStart
    \/ OcrBatchSubmit
    \/ OcrBatchRun
    \/ OcrBatchReturn

SpecOcrBatch == InitOcrBatch /\ [][NextOcrBatch]_vars

(* ---------------- gui/frame_viewer.py: FrameProcessingThread ---------------- *)
\* a local variable of a Python function that no statement has assigned yet
Unbound == [kind |-> "unbound"]

\* the frames the thread is given: those of a video of n frames, as
\* list_images_in_directory lists them
ThreadFiles(n) ==
    [p \in {FrameFilename(i) : i \in 0..(n - 1)} |->
        Frame(Video("ok", n, n), CHOOSE i \in 0..(n - 1) : FrameFilename(i) = p)]

\* FrameProcessingThread(frames, processed_folder, ocrProcessor), lines 30-39:
\* processed_path is the local variable of run, calls what was handed to the
\* OCR processor for each frame
FrameProcessingThread(input) ==
    [kind |-> "thread", input |-> input, index |-> 0,
     processed_frames |-> NoneList(Len(input)), ocr_texts |-> NoneList(Len(input)),
     processed_path |-> Unbound, outcomes |-> <<>>, calls |-> <<>>,
     progress |-> <<>>, raised |-> FALSE]

\* lines 41-57: one iteration of the loop of run. processed_path is assigned
\* only under the test of line 44 and read at line 52 whatever the test gave;
\* reading it unassigned raises UnboundLocalError, which line 53 catches. An
\* exception of lines 43-47 leaves run. written is the processed folder after
\* line 47.
thread_iteration(t, outcome, ocr_outcome, files, written) ==
    LET frame == At(t.input, t.index)
        image == IF frame \in DOMAIN files THEN files[frame] ELSE None
        processed_frame == process_image(image, outcome, "Edge Detection")
        processed_path == IF processed_frame # None THEN ProcessedPath(frame)
                          ELSE t.processed_path
        got == ocr_process_ocr(processed_path, ocr_outcome, written)
    IN IF processed_frame.kind = "raised"
       THEN [t EXCEPT !.raised = TRUE, !.outcomes = Append(@, outcome)]
       ELSE [t EXCEPT
               !.processed_path = processed_path,
               !.processed_frames[t.index + 1] =
                    IF processed_frame # None THEN processed_path ELSE @,
               !.ocr_texts[t.index + 1] =
                    IF processed_path = Unbound THEN Str("OCR Error")
                    ELSE IF got.kind = "raised" THEN Str("OCR Error") ELSE got,
               !.calls = Append(@, IF processed_path = Unbound THEN NotCalled
                                   ELSE CalledWith(processed_path)),
               !.outcomes = Append(@, outcome),
               !.progress = Append(@, Percent(t.index + 1, Len(t.input))),
               !.index = @ + 1]

\* line 47: cv2.imwrite(processed_path, processed_frame)
thread_written(t, outcome, files) ==
    LET frame == At(t.input, t.index)
        image == IF frame \in DOMAIN files THEN files[frame] ELSE None
        processed_frame == process_image(image, outcome, "Edge Detection")
    IN IF processed_frame.kind = "image"
       THEN (ProcessedPath(frame) :> processed_frame)
       ELSE << >>

\* no extraction has been started
InitNoExtraction ==
    /\ folderExists = TRUE
    /\ exPc = "idle"
    /\ video_path = NoVideo
    /\ frame_interval = FrameInterval
    /\ progress_callback = FALSE
    /\ cap = "none"
    /\ frame_count = 0
    /\ saved_frames = 0
    /\ total_frames = 0
    /\ executor = {}
    /\ submitted = <<>>
    /\ fsAtCall = [exists |-> folderExists, files |-> folderFiles]

InitThread ==
    /\ \E n \in 0..MaxThreadT :
        /\ folderFiles = ThreadFiles(n)
        /\ last = Given(list_images_in_directory(ThreadFiles(n)))
    /\ InitNoExtraction
    /\ InitGui(0, {}, {})

\* FrameProcessingThread(frames, ...).start()
ThreadStart ==
    /\ last.op = "given"
    /\ workers = {}
    /\ workers' = {FrameProcessingThread(last.arg)}
    /\ last' = Call("FrameProcessingThread.run", last.arg, None)
    /\ UNCHANGED <<fsVars, exVars, storeVars, guiVars, processedFiles, seekTrail>>

\* lines 41-57: the loop of run
ThreadIteration ==
    /\ \E t \in workers, outcome \in FrameOutcomes, ocr_outcome \in OcrOutcomes :
        /\ t.kind = "thread"
        /\ ~t.raised
        /\ t.index < Len(t.input)
        /\ processedFiles' = thread_written(t, outcome, folderFiles) @@ processedFiles
        /\ workers' = {thread_iteration(t, outcome, ocr_outcome, folderFiles, processedFiles')}
    /\ UNCHANGED <<fsVars, exVars, storeVars, guiVars, last, seekTrail>>

\* line 59: self.finished.emit(processed_frames, ocr_texts)
ThreadFinished ==
    /\ last.op = "FrameProcessingThread.run"
    /\ \E t \in workers :
        /\ t.kind = "thread"
        /\ ~t.raised
        /\ t.index = Len(t.input)
        /\ last' = Call("FrameProcessingThread.finished", t.input,
                        Pair(t.processed_frames, t.ocr_texts))
    /\ UNCHANGED <<fsVars, exVars, storeVars, guiVars, workers, processedFiles, seekTrail>>

NextThread ==
    \/ ThreadStart
    \/ ThreadIteration
    \/ ThreadFinished

SpecThread == InitThread /\ [][NextThread]_vars


(* ---------------- gui/frame_viewer.py: a batch worker run on its own ---------------- *)
\* the processed images of the frames of ThreadFiles(n) that kept says were
\* processed before
WorkerProcessedFiles(n, kept) ==
    [p \in {ProcessedPath(FrameFilename(i)) : i \in {j \in 0..(n - 1) : kept[j + 1]}} |->
        Processed("Edge Detection",
                  ThreadFiles(n)[CHOOSE f \in DOMAIN ThreadFiles(n) : ProcessedPath(f) = p])]

\* the list self.processed_frames of those frames: a path where the frame was
\* processed, None where it was not
WorkerProcessedFrames(n, kept) ==
    [i \in 1..n |-> IF kept[i] THEN ProcessedPath(FrameFilename(i - 1)) ELSE None]

\* a worker is constructed with the frames of a video of n frames: a
\* FrameProcessingWorker with a processing mode, or an OCRProcessingWorker with
\* the processed frames a batch before it left
InitWorker ==
    /\ InitWindow(0, {}, {})
    /\ \E n \in 0..MaxWorkerT, kept \in [1..MaxWorkerT -> BOOLEAN] :
        /\ folderFiles = ThreadFiles(n)
        /\ processedFiles = WorkerProcessedFiles(n, kept)
        /\ \/ \E mode \in {"Edge Detection", UnknownMode} :
                /\ \A i \in 1..MaxWorkerT : ~kept[i]
                /\ last = Given(FrameWorker(1, list_images_in_directory(ThreadFiles(n)), mode))
           \/ /\ \A i \in (n + 1)..MaxWorkerT : ~kept[i]
              /\ last = Given(OcrWorker(1, WorkerProcessedFrames(n, kept)))
    /\ InitNoExtraction

\* frame_viewer.py 270-271, 345-346: QThreadPool.globalInstance().start(runnable)
WorkerStart ==
    /\ last.op = "given"
    /\ workers = {}
    /\ workers' = {last.arg}
    /\ last' = Call("start", last.arg, None)
    /\ UNCHANGED <<fsVars, exVars, storeVars, guiVars, processedFiles, seekTrail>>

\* finished.emit as it would be inside the try block of the last iteration: a
\* batch with a failed frame emits nothing
emit_finished_unless_failed(w, signals) ==
    IF \E i \in 1..Len(w.outcomes) : w.outcomes[i] \in {"exc", "raised"}
    THEN signals
    ELSE Append(signals, [kind |-> w.kind, id |-> w.id, input |-> w.input, result |-> w.result])

\* lines 239 and 314: self.finished.emit(processed_frames) and
\* self.finished.emit(ocr_texts), after the loop and outside its try block
emit_finished(w, signals) ==
    Append(signals, [kind |-> w.kind, id |-> w.id, input |-> w.input, result |-> w.result])

\* FrameProcessingWorker.process_frames, line 239, then run returns
FrameWorkerEmit ==
    /\ \E w \in workers :
        /\ w.kind = "frames"
        /\ ~Running(w)
        /\ finishedSignals' = emit_finished(w, finishedSignals)
        /\ workers' = workers \ {w}
    /\ UNCHANGED <<fsVars, exVars, storeVars, processFramesButton, processOCRButton, commands, budget, library, modes, status_progress, frameSlider, crashed, processedFiles>>
    /\ Quiet

\* OCRProcessingWorker.process_ocr, line 314, then run returns
OcrWorkerEmit ==
    /\ \E w \in workers :
        /\ w.kind = "ocr"
        /\ ~Running(w)
        /\ finishedSignals' = emit_finished(w, finishedSignals)
        /\ workers' = workers \ {w}
    /\ UNCHANGED <<fsVars, exVars, storeVars, processFramesButton, processOCRButton, commands, budget, library, modes, status_progress, frameSlider, crashed, processedFiles>>
    /\ Quiet

NextWorker ==
    \/ WorkerStart
    \/ FrameWorkerStep
    \/ OcrWorkerStep
    \/ FrameWorkerEmit
    \/ OcrWorkerEmit

\* the pool thread that was handed the runnable runs it
SpecWorker == InitWorker /\ [][NextWorker]_vars /\ WF_vars(NextWorker)


(* ======================= the claims ======================= *)
ImageFiles == {p \in DOMAIN folderFiles : p.ext \in ImageExts}
Loaded == processFramesButton

\* C1 (as claimed): once load_frames has run, frames, processed_frames and
\* ocr_texts have the same length in every reachable state, whatever the
\* interleaving of loads, batch dispatches, batch completions and navigation.
C1_ParallelArrays ==
    Loaded => /\ Len(frames) = Len(processed_frames)
              /\ Len(frames) = Len(ocr_texts)

\* C2: whenever frames is non-empty the cursor is within 0 .. len(frames)-1.
C2_CursorInRange ==
    frames # <<>> => /\ 0 <= current_frame_index
                     /\ current_frame_index <= Len(frames) - 1

\* a next_frame call at the last frame of a store of three frames, which stayed there
C2_Witness ==
    /\ Len(frames) = 3
    /\ current_frame_index = 2
    /\ last.op = "next_frame"
    /\ last.ret = Pair(None, None)

\* C3: next_frame moves the cursor up by exactly one when it is below
\* len(frames)-1 and prev_frame moves it down by exactly one when it is above 0;
\* otherwise (a boundary, an empty store) the call changes nothing and returns
\* without raising; neither call changes frames, processed_frames or ocr_texts.
C3_Step ==
    /\ NextFrame =>
        /\ UNCHANGED <<frames, processed_frames, ocr_texts>>
        /\ IF frames # <<>> /\ current_frame_index < Len(frames) - 1
           THEN current_frame_index' = current_frame_index + 1
           ELSE /\ current_frame_index' = current_frame_index
                /\ last'.ret.kind # "raised"
    /\ PrevFrame =>
        /\ UNCHANGED <<frames, processed_frames, ocr_texts>>
        /\ IF frames # <<>> /\ current_frame_index > 0
           THEN current_frame_index' = current_frame_index - 1
           ELSE /\ current_frame_index' = current_frame_index
                /\ last'.ret.kind # "raised"
C3_NextPrev == [][C3_Step]_vars

\* next_frame has just moved the cursor of a three-frame store from 0 to 1
C3_Witness ==
    /\ Len(frames) = 3
    /\ last.op = "next_frame"
    /\ last.ret = None
    /\ current_frame_index = 1

\* C4: set_frame(index) with 0 <= index < len(frames) sets the cursor to index;
\* with any other index it returns (None, None) without raising and leaves the
\* cursor and the three lists as they were.
C4_Step ==
    SetFrame =>
        /\ UNCHANGED <<frames, processed_frames, ocr_texts>>
        /\ IF 0 <= last'.arg /\ last'.arg < Len(frames)
           THEN current_frame_index' = last'.arg
           ELSE /\ current_frame_index' = current_frame_index
                /\ last'.ret = Pair(None, None)
C4_SetFrame == [][C4_Step]_vars

\* set_frame(len(frames)) was called on a three-frame store whose cursor is not 0
C4_Witness ==
    /\ Len(frames) = 3
    /\ last.op = "set_frame"
    /\ last.arg = 3
    /\ last.ret = Pair(None, None)
    /\ current_frame_index = 1

\* C5 (as claimed): after set_frame(i); prev_frame(); next_frame() with
\* 0 <= i < len(frames) the cursor is i again.
C5_SeekPrevNext ==
    seekTrail.stage = 3 => current_frame_index = seekTrail.index

\* C5 (amended): the same for 0 < i < len(frames), and for i = 0 when the store
\* holds a single frame.
C5_SeekPrevNextInside ==
    (seekTrail.stage = 3 /\ (seekTrail.index > 0 \/ Len(frames) = 1))
        => current_frame_index = seekTrail.index

\* set_frame(1); prev_frame(); next_frame() has run on a three-frame store
C5_Witness ==
    /\ seekTrail = [stage |-> 3, index |-> 1]
    /\ Len(frames) = 3
    /\ current_frame_index = 1

\* C6: load_frames makes frames the image files of the folder in name order,
\* makes processed_frames and ocr_texts lists of that length with every slot
\* None, and sets the cursor to 0.
C6_Step ==
    onFramesExtracted =>
        /\ Len(frames') = Cardinality(ImageFiles)
        /\ {frames'[i] : i \in 1..Len(frames')} = ImageFiles
        /\ \A i, j \in 1..Len(frames') : i < j => LexLess(frames'[i].stem, frames'[j].stem)
        /\ Len(processed_frames') = Len(frames')
        /\ Len(ocr_texts') = Len(frames')
        /\ \A i \in 1..Len(frames') : processed_frames'[i] = None /\ ocr_texts'[i] = None
        /\ current_frame_index' = 0
C6_LoadResets == [][C6_Step]_vars

\* a load of two frames or more after a process-all batch has been delivered
C6_Witness ==
    /\ last.op = "onFramesExtracted"
    /\ processOCRButton
    /\ Len(frames) >= 2

\* the name frame_%04d gives the k-th kept frame, for k < 10
StemOf(k) == <<0, 0, 0, k>>

\* ceil(a / b)
CeilDiv(a, b) == (a + b - 1) \div b

\* what C7 says of a run that is over
ExtractKept ==
    LET K == CeilDiv(video_path.T, frame_interval)
    IN /\ Len(submitted) = K
       /\ saved_frames = K
       /\ executor = {}
       /\ \A k \in 0..(K - 1) :
            /\ submitted[k + 1].filename.stem = StemOf(k)
            /\ submitted[k + 1].filename.ext = "jpg"
            /\ submitted[k + 1].frame.idx = k * frame_interval
            /\ submitted[k + 1].filename \in DOMAIN folderFiles
            /\ folderFiles[submitted[k + 1].filename] = Frame(video_path, k * frame_interval)
       /\ Cardinality(ImageFiles) = K

\* C7 (as claimed): every run over T decodable frames with interval >= 1 submits
\* exactly ceil(T / interval) writes; the k-th of them (k from 0) is the frame
\* read at index k * interval and goes to frame_<k as 4 digits>; when the run is
\* over every one of them is on disk, whatever order the pool ran them in.
C7_ExtractKeeps ==
    (exPc \in {"returned", "raised"} /\ video_path.status = "ok") => ExtractKept

\* C7, of the runs that return: the same holds of every run that reaches its
\* last line.
C7_ExtractKeepsOnReturn ==
    (exPc = "returned" /\ video_path.status = "ok") => ExtractKept

\* five frames at interval 2: reads 0, 2 and 4 are kept as frame_0000 .. frame_0002
C7_Witness ==
    /\ exPc = "returned"
    /\ cap = "released"
    /\ video_path.T = 5
    /\ frame_interval = 2
    /\ Len(submitted) = 3

\* C8 (as claimed): a run whose video cannot be opened leaves the file system as
\* it found it: no frame file written, nothing created.
C8_NoWriteOnOpenFailure ==
    (exPc = "returned" /\ video_path.status \in {"missing", "corrupt"}) =>
        /\ submitted = <<>>
        /\ Snapshot = fsAtCall

\* C9 (as claimed): the frame folder is loaded and frame processing enabled
\* only for an extraction that opened its video.
C9_FailureHalts ==
    last.op = "onFramesExtracted" => last.arg.opened

\* C10: in a process-all batch the slot of a frame is unset exactly when that
\* frame failed, a set slot holds that frame's processed path, and a failure
\* does not end the batch: the worker goes on to the next frame, and when the
\* batch is over every frame has been attempted.
C10_FailureIsPerFrame ==
    \A w \in workers :
        w.kind = "frames" =>
            /\ Len(w.result) = Len(w.input)
            /\ Len(w.outcomes) = w.index
            /\ w.index <= Len(w.input)
            /\ \A i \in 1..Len(w.input) :
                IF i <= Len(w.outcomes) /\ w.outcomes[i] = "ok"
                THEN w.result[i] = ProcessedPath(w.input[i])
                ELSE w.result[i] = None

\* a finished batch whose first frame failed and whose second was processed
C10_Witness ==
    \E w \in workers :
        /\ w.kind = "frames"
        /\ ~Running(w)
        /\ Len(w.input) >= 2
        /\ w.outcomes[1] # "ok"
        /\ w.outcomes[2] = "ok"
        /\ w.result[2] # None

\* the worker that has just taken a step, before and after it
Stepped == workers \ workers'
SteppedTo(w) == {w2 \in workers' \ workers : w2.id = w.id}

\* C11: process_image answers a processing mode it does not know with None and
\* raises nothing; a step of a process-all batch on a frame under such a mode
\* writes no processed file, leaves the frame's slot (and every other) unset,
\* goes on to the next frame and does not end the process.
C11_Step ==
    FrameWorkerStep =>
        \A w \in Stepped :
            w.mode \notin DropdownModes =>
                /\ \A outcome \in FrameOutcomes : process_image(None, outcome, w.mode) = None
                /\ processedFiles' = processedFiles
                /\ ~crashed'
                /\ \A w2 \in SteppedTo(w) :
                    /\ w2.index = w.index + 1
                    /\ w2.result = w.result
                    /\ \A i \in 1..Len(w2.result) : w2.result[i] = None
C11_UnknownMode == [][C11_Step]_vars

\* a batch under the unknown mode is over: its frame, readable and processable,
\* was attempted and its slot is unset
C11_Witness ==
    \E w \in workers :
        /\ w.kind = "frames"
        /\ w.mode = UnknownMode
        /\ ~Running(w)
        /\ Len(w.input) >= 1
        /\ w.outcomes[1] = "ok"
        /\ w.result[1] = None

\* the number a digit string writes
RECURSIVE Value(_)
Value(digits) ==
    IF digits = <<>> THEN 0
    ELSE 10 * Value(SubSeq(digits, 1, Len(digits) - 1)) + digits[Len(digits)]

\* C12: in an OCR batch, for every frame index reached: where the processed slot
\* is set the OCR processor was called with that processed frame and what it
\* gave is stored at the same index (text detected in the image of that very
\* frame, or the string it returns without one); where the slot is unset the OCR
\* processor was not called and the sentinel is stored.
C12_OcrPerSlot ==
    \A w \in workers :
        w.kind = "ocr" =>
            /\ Len(w.calls) = w.index
            /\ Len(w.result) = Len(w.input)
            /\ \A i \in 1..Len(w.input) :
                IF i > w.index THEN w.result[i] = None
                ELSE IF w.input[i] = None
                THEN /\ w.calls[i] = NotCalled
                     /\ w.result[i] = Str("No processed frame available.")
                ELSE /\ w.calls[i] = CalledWith(w.input[i])
                     /\ IF w.outcomes[i] = "text"
                        THEN /\ w.result[i].s = "detected"
                             /\ w.result[i].of.kind = "image"
                             /\ w.result[i].of.of.idx = Value(w.input[i].stem) * FrameInterval
                        ELSE IF w.outcomes[i] = "raised"
                        THEN w.result[i] = Str("OCR Error")
                        ELSE w.result[i] = Str("")

\* an OCR batch is over whose first frame had no processed image and whose second
\* frame had one with text in it
C12_Witness ==
    \E w \in workers :
        /\ w.kind = "ocr"
        /\ ~Running(w)
        /\ Len(w.input) >= 2
        /\ w.input[1] = None
        /\ w.input[2] # None
        /\ w.outcomes[2] = "text"

\* C13 (as claimed): where the OCR of one image fails because the image is
\* unreadable or the engine reports a recognition error, the slot of that frame
\* holds a text that explains the failure and is never blank (and the batch goes
\* on: the index has moved past the frame).
C13_FailureHasPlaceholder ==
    \A w \in workers :
        w.kind = "ocr" =>
            \A i \in 1..w.index :
                w.outcomes[i] \in {"unreadable", "engine_error"} =>
                    /\ w.result[i] # None
                    /\ w.result[i].s # ""

\* C14 (as claimed): once a call of an OCR batch has found the engine missing, no
\* later frame of the batch is handed to the OCR processor.
C14_EngineMissingAborts ==
    \A w \in workers :
        w.kind = "ocr" =>
            \A i, j \in 1..w.index :
                (i < j /\ w.outcomes[i] = "no_engine") => ~w.calls[j].called

\* C15 (as claimed): when an OCR batch that followed a process-all batch has been
\* delivered, ocr_texts is as long as frames and no slot of it is unset or an
\* empty string.
C15_NoBlankSlot ==
    last.op = "processOCR.on_finished" =>
        /\ Len(ocr_texts) = Len(frames)
        /\ \A i \in 1..Len(ocr_texts) :
            /\ ocr_texts[i] # None
            /\ ocr_texts[i].s # ""

\* C16 (as claimed): when a process-all batch has been delivered, no slot of
\* ocr_texts holds text detected in another image than the one that the file
\* named by processed_frames[i] holds now.
C16_NoStaleText ==
    last.op = "processFrames.on_finished" =>
        \A i \in 1..Len(ocr_texts) :
            (/\ i <= Len(processed_frames)
             /\ processed_frames[i] # None
             /\ processed_frames[i] \in DOMAIN processedFiles
             /\ ocr_texts[i] # None
             /\ ocr_texts[i].s = "detected")
                => ocr_texts[i].of = processedFiles[processed_frames[i]]

\* C17 (as claimed): the delivery of a process-all batch leaves no slot of
\* processed_frames unset that was set before it.
C17_Step ==
    onProcessingFinished =>
        \A i \in 1..Len(processed_frames) :
            (i <= Len(processed_frames') /\ processed_frames[i] # None)
                => processed_frames'[i] # None

C17_SlotStaysProcessed == [][C17_Step]_vars

\* C18 (as claimed): a batch over one frame or more whose loop has ended, and
\* whose completion is about to be notified, has emitted the progress value 100
\* exactly once, as its last progress value.
C18_HundredOnce ==
    \A w \in workers :
        (Len(w.input) >= 1 /\ ~Running(w)) =>
            /\ Cardinality({k \in 1..Len(w.progress) : w.progress[k] = 100}) = 1
            /\ w.progress[Len(w.progress)] = 100

\* C19 (as claimed): no batch whose progress dialog has been cancelled starts
\* work on a further frame.
C19_Step ==
    (FrameWorkerStep \/ OcrWorkerStep) => \A w \in Stepped : ~w.cancelled

C19_CancelHonoured == [][C19_Step]_vars

\* C20 (as claimed): when a batch is delivered to the caller's finished_callback,
\* the caller's progress_callback has received every progress value the batch
\* emitted.
C20_CallerSeesProgress ==
    last.op \in {"processFrames.on_finished", "processOCR.on_finished"} =>
        \A k \in 1..Len(last.arg.progress) :
            \E j \in 1..Len(status_progress) : status_progress[j] = last.arg.progress[k]

\* C21 (as claimed): the aggregate confidence is the mean of the confidences
\* that are not the engine's -1, and 0 when there is none.
C21_MeanOfKnown ==
    last.op = "avg_confidence" =>
        LET known == SelectSeq(last.arg, LAMBDA c : c.v # UnknownConf)
            total == sum([i \in 1..Len(known) |-> known[i].v])
        IN IF known = <<>>
           THEN last.ret.num = 0
           ELSE last.ret.num * Len(known) = total * last.ret.den

\* the dispatch table as claimed: names and flags of the chain of each mode, and
\* the arguments where the table lists them (<<>> where it lists none)
ClaimedChain(mode) ==
    CASE mode = "Edge Detection" ->
            <<Cv2("GaussianBlur", "", <<5, 5, 0>>), Cv2("Canny", "", <<50, 150>>)>>
      [] mode = "Thresholding" ->
            <<Cv2("GaussianBlur", "", <<>>),
              Cv2("threshold", "THRESH_BINARY+THRESH_OTSU", <<>>)>>
      [] mode = "Morphological Operations" ->
            <<Cv2("GaussianBlur", "", <<>>),
              Cv2("morphologyEx", "MORPH_CLOSE", <<1, 1, 1, 1, 1, 1, 1, 1, 1>>)>>
      [] mode = "Adaptive Thresholding" ->
            <<Cv2("adaptiveThreshold", "ADAPTIVE_THRESH_GAUSSIAN_C,THRESH_BINARY", <<255, 11, 2>>)>>
      [] mode = "Gaussian Blur" -> <<Cv2("GaussianBlur", "", <<5, 5, 0>>)>>
      [] mode = "Sharpening" -> <<Cv2("filter2D", "", <<0, -1, 0, -1, 5, -1, 0, -1, 0>>)>>
      [] mode = "Histogram Equalization" -> <<Cv2("equalizeHist", "", <<>>)>>
      [] mode = "Median Blur" -> <<Cv2("medianBlur", "", <<5>>)>>
      [] mode = "Bilateral Filter" -> <<Cv2("bilateralFilter", "", <<9, 75, 75>>)>>

IsClaimed(call, claimed) ==
    /\ call.fn = claimed.fn
    /\ call.how = claimed.how
    /\ claimed.args # <<>> => call.args = claimed.args

\* C22 (as claimed): for each of the nine modes, the image process_image returns
\* was made by the chain of transforms the dispatch table lists for the mode, and
\* by nothing else.
C22_DispatchTable ==
    (/\ last.op = "process_image"
     /\ last.arg.processing_type \in DropdownModes
     /\ last.ret.processed.kind = "image") =>
        LET applied == last.ret.applied
            claimed == ClaimedChain(last.arg.processing_type)
        IN /\ Len(applied) = Len(claimed)
           /\ \A k \in 1..Len(claimed) : IsClaimed(applied[k], claimed[k])

\* the files display_frame can find
FilesOnDisk == DOMAIN folderFiles \cup DOMAIN processedFiles

\* C23 (as claimed): when set_frame has shown the frame of a valid index, neither
\* what it returns nor what display_frame put on the views holds an unset value
\* or a blank: an unset processed slot and an unset OCR slot are shown as an
\* explicit marker.
C23_NoUnsetShown ==
    (/\ last.op = "set_frame"
     /\ last.ret.kind = "tuple"
     /\ last.ret.fst # None) =>
        /\ last.ret.snd # None
        /\ displayed(Store, FilesOnDisk).processedView # Text("")
        /\ displayed(Store, FilesOnDisk).text_display # Text("")

\* the triple of the cursor position after a step
TripleAfter(ret) ==
    /\ ret.kind = "tuple"
    /\ DOMAIN ret = {"kind", "fst", "snd", "thd"}
    /\ ret.fst = At(frames', current_frame_index')
    /\ ret.snd = At(processed_frames', current_frame_index')
    /\ ret.thd = At(ocr_texts', current_frame_index')

\* C24 (as claimed): a next_frame or prev_frame that moves the cursor, and a
\* set_frame with an index in range, return the triple (frames[c],
\* processed_frames[c], ocr_texts[c]) of the new cursor position c.
C24_Step ==
    /\ ((NextFrame \/ PrevFrame) /\ current_frame_index' # current_frame_index)
            => TripleAfter(last'.ret)
    /\ (SetFrame /\ 0 <= last'.arg /\ last'.arg < Len(frames)
            /\ current_frame_index' < Len(processed_frames')
            /\ current_frame_index' < Len(ocr_texts'))
            => TripleAfter(last'.ret)

C24_NavReturnsTriple == [][C24_Step]_vars

\* C25 (as claimed): no step of a batch worker changes frames, processed_frames,
\* ocr_texts or the cursor; these change only when load_frames runs and when a
\* completion is applied on the control thread; and the completion of a batch
\* changes the length of none of the three lists.
C25_Step ==
    /\ (FrameWorkerStep \/ OcrWorkerStep) => UNCHANGED storeVars
    /\ (storeVars' # storeVars) =>
            (onFramesExtracted \/ onProcessingFinished \/ onOcrFinished)
    /\ (onProcessingFinished \/ onOcrFinished) =>
            /\ Len(frames') = Len(frames)
            /\ Len(processed_frames') = Len(processed_frames)
            /\ Len(ocr_texts') = Len(ocr_texts)

C25_StoreOwned == [][C25_Step]_vars

\* C26 (as claimed): when a run of extract_frames has ended, by return or by an
\* exception, a video source it had opened is released.
C26_SourceReleased ==
    (exPc \in {"returned", "raised"} /\ cap # "none" /\ cap # "failed") =>
        cap = "released"

\* what the single-image call process_ocr(image_paths[i], return_text=True) does
\* for entry i of a returned batch
SingleCall(i) ==
    ocr_process_ocr(last.arg.image_paths[i], last.arg.outcomes[i], processedFiles)

Listed(paths) == {paths[i] : i \in 1..Len(paths)}

\* C28: when extract_frames has returned, none of the write tasks it submitted
\* is pending and the file of each holds its frame; and when the finished signal
\* of an extraction is handled and load_frames has listed the folder, the file
\* of every frame the extraction kept is in frames.
C28_WritesDone ==
    /\ exPc = "returned" =>
            /\ executor = {}
            /\ \A k \in 1..Len(submitted) :
                /\ submitted[k].filename \in DOMAIN folderFiles
                /\ folderFiles[submitted[k].filename] = submitted[k].frame
    /\ last.op = "onFramesExtracted" =>
            \A k \in 0..(last.arg.saved - 1) : FrameFilename(k) \in Listed(frames)

\* the finished signal of an extraction that kept two frames has been handled
C28_Witness ==
    /\ last.op = "onFramesExtracted"
    /\ last.arg.saved >= 2
    /\ Len(frames) >= 2

\* C29 (as claimed): when the finished signal of an extraction that opened its
\* video has been handled, no other extraction running or waiting to be handled
\* and the files it wrote still holding its frames, frames holds as many paths
\* as the extraction kept frames, and each of them is a file of a frame of that
\* video.
C29_OnlyThisExtraction ==
    (/\ last.op = "onFramesExtracted"
     /\ last.arg.opened
     /\ exPc = "idle"
     /\ finishedSignals = <<>>
     /\ \A k \in 0..(last.arg.saved - 1) :
            folderFiles[FrameFilename(k)].src = last.arg.video.T) =>
        /\ Len(frames) = last.arg.saved
        /\ \A i \in 1..Len(frames) : folderFiles[frames[i]].src = last.arg.video.T

\* C30 (as claimed): whenever frames is not empty, the navigation controls
\* enabled and the slider's range 0 .. len(frames)-1, the value of the slider is
\* the index of the frame shown.
C30_SliderIsCursor ==
    (/\ frames # <<>>
     /\ frameSlider.enabled
     /\ frameSlider.minimum = 0
     /\ frameSlider.maximum = Len(frames) - 1) =>
        frameSlider.value = current_frame_index


\* C31 (as claimed): in FrameProcessingThread.run, where frame i gave no
\* processed image, processed_frames[i] stays unset and the OCR processor is not
\* handed the processed image of another frame for slot i, so ocr_texts[i] is
\* never the text of another frame.
C31_OcrOfOwnFrame ==
    \A t \in workers :
        t.kind = "thread" =>
            \A i \in 1..Len(t.calls) :
                t.outcomes[i] = "none" =>
                    /\ t.processed_frames[i] = None
                    /\ t.calls[i].called => t.calls[i].image_path = ProcessedPath(t.input[i])
                    /\ t.ocr_texts[i].kind = "str" /\ t.ocr_texts[i].of # None =>
                            t.ocr_texts[i].of.of = folderFiles[t.input[i]]


\* the background operations started and not yet completed for the window: the
\* extraction whose thread runs or whose finished signal is still queued, and
\* every batch worker whose finished signal has not been delivered
InFlight ==
    Cardinality(workers) + (IF ThreadRunning \/ finishedSignals # <<>> THEN 1 ELSE 0)

\* C32 (as claimed): at most one background operation (frame extraction,
\* process-all batch, OCR batch) is in flight at any time; the main window starts
\* no second one before the first has delivered its completion. Looked at where
\* frames are loaded, no extraction is running and none of its signals is
\* queued, so that what is counted are batches started from the buttons of the
\* window, each with files to write.
C32_OneInFlight ==
    (exPc = "idle" /\ finishedSignals = <<>> /\ frames # <<>>) => InFlight <= 1


\* the batch that was started, while it is started or running
Started == workers # {}

\* C33: a started process-all batch or OCR batch ends and emits finished once,
\* with a list as long as the list of frames it was given at dispatch, whatever
\* happens to the single frames and also where the list is empty.
C33_BatchCompletes ==
    /\ [](/\ Len(finishedSignals) <= 1
          /\ \A i \in 1..Len(finishedSignals) :
                Len(finishedSignals[i].result) = Len(finishedSignals[i].input))
    /\ (Started ~> (workers = {} /\ Len(finishedSignals) = 1))

\* an OCR batch of MaxWorkerT frames, one of which raised, has emitted
C33_Witness ==
    /\ workers = {}
    /\ Len(finishedSignals) = 1
    /\ LET done == finishedSignals[1]
       IN /\ Len(done.result) = Len(done.input)
          /\ done.kind = "ocr"
          /\ Len(done.input) = MaxWorkerT
          /\ \E i \in 1..Len(done.result) : done.result[i] = Str("OCR Error")


\* the values progress_callback was given are 1, 2, 3, ...: each the number of
\* images done when it is reported
CountsUp(progress) == \A k \in 1..Len(progress) : progress[k] = k

\* a batch every image of which is a file the engine finds text in
AllRead(image_paths, outcomes) ==
    \A i \in 1..Len(image_paths) : image_paths[i] # None /\ outcomes[i] = "text"

\* C34 (as claimed): the values process_ocr_batch passes to progress_callback
\* never decrease and each is the number of images whose OCR has completed so
\* far, in whatever order the pool runs the tasks; the last one is the number
\* of images. Looked at for batches in which every call of process_ocr returns
\* detected text.
C34_ProgressCounts ==
    /\ \A call \in workers :
            call.kind = "ocr_batch" /\ AllRead(call.image_paths, call.outcomes) =>
                CountsUp(call.progress)
    /\ last.op = "process_ocr_batch.return" /\ AllRead(last.arg.image_paths, last.arg.outcomes) =>
            /\ CountsUp(last.arg.progress)
            /\ Len(last.arg.progress) = Len(last.arg.image_paths)

====
